---- MODULE Spec2Model ----
(***************************************************************************)
(* Node bootstrap and reachability subsystem of arken/ait (package ipfs):  *)
(* Init, spawnNode, setRelay, checkReachability, setupNode, createNode,    *)
(* createRepo and connectToPeers of src/ipfs/ipfs.go as a state machine.   *)
(*                                                                         *)
(* Strings that the code inspects are sequences of one-character strings,  *)
(* so that strings.HasPrefix is computed, not assumed.  Calls into the     *)
(* go-ipfs libraries (fsrepo, core.NewNode, Swarm) are the environment:    *)
(* their results are drawn from the outcomes their signatures allow.       *)
(***************************************************************************)
EXTENDS Naturals, Sequences, FiniteSets

\* ------------------------------------------------------------------ bounds

\* Longest list of local addresses the swarm reports to the probe.
MaxAddrs == 2
\* Longest peer address list handed to connectToPeers in SpecPeers.
MaxPeers == 3

\* ------------------------------------------------------- strings, prefixes

\* /ip4/192.168.0.5
AddrLan ==
  <<"/", "i", "p", "4", "/", "1", "9", "2", ".", "1", "6", "8", ".", "0", ".", "5">>
\* /ip4/127.0.0.1
AddrLoopback ==
  <<"/", "i", "p", "4", "/", "1", "2", "7", ".", "0", ".", "0", ".", "1">>
\* /ip4/203.0.113.4
AddrPublic ==
  <<"/", "i", "p", "4", "/", "2", "0", "3", ".", "0", ".", "1", "1", "3", ".", "4">>
\* /ip4/10.0.0.7
AddrTen ==
  <<"/", "i", "p", "4", "/", "1", "0", ".", "0", ".", "0", ".", "7">>
\* /ip4/100.64.0.1
AddrHundred ==
  <<"/", "i", "p", "4", "/", "1", "0", "0", ".", "6", "4", ".", "0", ".", "1">>
\* /ip4/172.17.0.1
AddrDocker ==
  <<"/", "i", "p", "4", "/", "1", "7", "2", ".", "1", "7", ".", "0", ".", "1">>
\* /ip6/::1
AddrSix ==
  <<"/", "i", "p", "6", "/", ":", ":", "1">>

\* The addresses api.Swarm().LocalAddrs may report.
AddrPool ==
  {AddrLan, AddrLoopback, AddrPublic, AddrTen, AddrHundred, AddrDocker, AddrSix}

\* All address lists of length 0..MaxAddrs.
AddrLists ==
  UNION {[1..n -> AddrPool] : n \in 0..MaxAddrs}

\* ips of checkReachability: /ip4/10.  /ip4/192.  /ip4/127.  /ip4/172.  /ip6/
ips ==
  << <<"/", "i", "p", "4", "/", "1", "0", ".">>,
     <<"/", "i", "p", "4", "/", "1", "9", "2", ".">>,
     <<"/", "i", "p", "4", "/", "1", "2", "7", ".">>,
     <<"/", "i", "p", "4", "/", "1", "7", "2", ".">>,
     <<"/", "i", "p", "6", "/">> >>

\* strings.HasPrefix(s, prefix)
HasPrefix(s, prefix) ==
  /\ Len(s) >= Len(prefix)
  /\ SubSeq(s, 1, Len(prefix)) = prefix

\* The inner loop of checkReachability from ipNum on: private is set, never
\* cleared, by each matching prefix.
RECURSIVE privateLoop(_, _, _)
privateLoop(addr, ipNum, private) ==
  IF ipNum > Len(ips) THEN private
  ELSE privateLoop(addr, ipNum + 1,
                   IF HasPrefix(addr, ips[ipNum]) THEN TRUE ELSE private)

\* The outer loop of checkReachability from addrNum on: the first address
\* that is not private returns true; falling off the end returns false.
RECURSIVE reachLoopDroppedPrefix(_, _)
reachLoopDroppedPrefix(multi, addrNum) ==
  IF addrNum > Len(multi) THEN FALSE
  ELSE IF ~privateLoop(multi[addrNum], 2, FALSE) THEN TRUE
  ELSE reachLoopDroppedPrefix(multi, addrNum + 1)

RECURSIVE reachLoop(_, _)
reachLoop(multi, addrNum) ==
  IF addrNum > Len(multi) THEN FALSE
  ELSE IF ~privateLoop(multi[addrNum], 1, FALSE) THEN TRUE
  ELSE reachLoop(multi, addrNum + 1)

\* Mutant of checkReachability: the /ip4/10. prefix is not consulted.
checkReachabilityDroppedPrefix(multi) ==
  reachLoopDroppedPrefix(multi, 1)

\* checkReachability(api), given the addresses LocalAddrs returned.
checkReachability(multi) ==
  reachLoop(multi, 1)

\* ------------------------------------------------------------ repository

\* Identities a repository's keypair can have (cfg.Identity.PeerID).
OwnIDs == {"QmSelfA", "QmSelfB"}

\* Identity of the in-memory repository core.NewNode falls back to.
EphemeralID == "QmEphemeral"

\* ID of the relay peer and of the Arken bootstrapper.
RelayID == "12D3KooWL7hvR7nfQxAWMowgoWXWQwKEkQA8QPZrhKjateRTgcDm"
LinkID == "12D3KooWSmosHZtDBbepxWwVgo8HyXSgNCUgs2GGD2qnQPbA3KhD"

\* "/dns4/relay.arken.io/tcp/4001/p2p/<relay>/p2p-circuit/p2p/" + peerID:
\* the concatenation is the pair of its two operands.
RelayCircuitPrefix ==
  "/dns4/relay.arken.io/tcp/4001/p2p/12D3KooWL7hvR7nfQxAWMowgoWXWQwKEkQA8QPZrhKjateRTgcDm/p2p-circuit/p2p/"

Concat(prefix, peerID) == <<prefix, peerID>>

\* An announce address a user may have put in the config by hand.
CustomAnnounce == <<"/ip4/203.0.113.4/tcp/4001", "">>

\* Error values.  ErrNotInitialized is the text serialize.Load returns and
\* spawnNode compares against.
NoErr == "nil"
ErrNotInitialized == "ipfs not initialized, please run 'ipfs init'"
ErrIO == "io error"
ErrNoRepo == "no IPFS repo found"
ErrMigration == "migration failed"
ErrConstruction == "node construction failed"
ErrCoreAPI == "core api failed"
ErrPlugins == "error loading plugins"
ErrKeygen == "key generation failed"
ErrInitRepo == "failed to init node"
ErrLocalAddrs == "local addrs failed"
ErrMultiaddr == "failed to parse multiaddr"
ErrInvalidAddr == "invalid p2p multiaddr"

\* What the fields of the config other than the announce list, the routing
\* mode and the peer ID hold together (private key, datastore spec,
\* reprovider settings, bootstrap list, filestore flag): as createRepo writes
\* them, or changed since.
OtherFields == {"arkenDefaults", "userEdited"}

\* Placeholder configuration of a path that holds no repository.
NoCfg ==
  [Announce |-> <<>>, RoutingType |-> "", PeerID |-> "", Other |-> ""]

NoRepo ==
  [init |-> FALSE, needMigration |-> FALSE, cfg |-> NoCfg]

\* Configurations an existing repository can hold when the process starts:
\* direct or relay mode from an earlier run, or edited by hand.
StartCfgs ==
  { [Announce |-> a, RoutingType |-> r, PeerID |-> id, Other |-> x] :
      a \in {<<>>, <<CustomAnnounce>>} , r \in {"dhtserver"}, id \in OwnIDs,
      x \in OtherFields }
  \cup
  { [Announce |-> <<Concat(RelayCircuitPrefix, id)>>, RoutingType |-> r,
     PeerID |-> id, Other |-> x] :
      r \in {"dht", "dhtserver"}, id \in OwnIDs, x \in OtherFields }

StartRepos ==
  {NoRepo} \cup
  { [init |-> TRUE, needMigration |-> m, cfg |-> c] :
      m \in BOOLEAN, c \in StartCfgs }

\* Outcomes of the two file operations of setRelay.
SetRelayOutcomes ==
  [read : {"ok", "err"}, write : {"ok", "err"}]

\* Mutant of setRelay: without relay the announce list read is written back
\* as it is.
setRelayKeepsAnnounce(relay, d, o) ==
  IF ~d.init THEN [disk |-> d, err |-> ErrNotInitialized, wrote |-> FALSE]
  ELSE IF o.read = "err" THEN [disk |-> d, err |-> ErrIO, wrote |-> FALSE]
  ELSE IF o.write = "err" THEN [disk |-> d, err |-> ErrIO, wrote |-> FALSE]
  ELSE [disk |-> [d EXCEPT !.cfg.Announce =
                       IF relay THEN <<Concat(RelayCircuitPrefix, d.cfg.PeerID)>>
                       ELSE d.cfg.Announce,
                     !.cfg.RoutingType = "dhtserver"],
        err |-> NoErr, wrote |-> TRUE]

\* Mutant of setRelay: the relay address is appended to the announce list
\* read instead of replacing it.
setRelayAppends(relay, d, o) ==
  IF ~d.init THEN [disk |-> d, err |-> ErrNotInitialized, wrote |-> FALSE]
  ELSE IF o.read = "err" THEN [disk |-> d, err |-> ErrIO, wrote |-> FALSE]
  ELSE IF o.write = "err" THEN [disk |-> d, err |-> ErrIO, wrote |-> FALSE]
  ELSE [disk |-> [d EXCEPT !.cfg.Announce =
                       IF relay
                       THEN Append(d.cfg.Announce,
                                   Concat(RelayCircuitPrefix, d.cfg.PeerID))
                       ELSE <<>>,
                     !.cfg.RoutingType = "dhtserver"],
        err |-> NoErr, wrote |-> TRUE]

\* Mutant of setRelay: the config written is a fresh default one carrying
\* the new announce list, so the other fields are reset.
setRelayResetsOther(relay, d, o) ==
  IF ~d.init THEN [disk |-> d, err |-> ErrNotInitialized, wrote |-> FALSE]
  ELSE IF o.read = "err" THEN [disk |-> d, err |-> ErrIO, wrote |-> FALSE]
  ELSE IF o.write = "err" THEN [disk |-> d, err |-> ErrIO, wrote |-> FALSE]
  ELSE [disk |-> [d EXCEPT !.cfg.Announce =
                       IF relay THEN <<Concat(RelayCircuitPrefix, d.cfg.PeerID)>>
                       ELSE <<>>,
                     !.cfg.RoutingType = "dhtserver",
                     !.cfg.Other = "arkenDefaults"],
        err |-> NoErr, wrote |-> TRUE]

\* setRelay(relay, path) on the repository d.  fsrepo.ConfigAt fails with
\* ErrNotInitialized when no config file exists, or with an I/O error; a
\* failed config.Filename or WriteConfigFile leaves the file as it was.
setRelay(relay, d, o) ==
  IF ~d.init THEN [disk |-> d, err |-> ErrNotInitialized, wrote |-> FALSE]
  ELSE IF o.read = "err" THEN [disk |-> d, err |-> ErrIO, wrote |-> FALSE]
  ELSE IF o.write = "err" THEN [disk |-> d, err |-> ErrIO, wrote |-> FALSE]
  ELSE [disk |-> [d EXCEPT !.cfg.Announce =
                       IF relay THEN <<Concat(RelayCircuitPrefix, d.cfg.PeerID)>>
                       ELSE <<>>,
                     !.cfg.RoutingType = "dhtserver"],
        err |-> NoErr, wrote |-> TRUE]

\* Outcomes of createRepo's fallible calls and the identity config.Init draws.
CreateRepoOutcomes ==
  [res : {"ok", "keygenErr", "initErr"}, id : OwnIDs]

\* createRepo(ctx, path).  fsrepo.Init leaves an initialized repository as it
\* is and returns nil.
createRepo(d, o) ==
  IF o.res = "keygenErr" THEN [disk |-> d, err |-> ErrKeygen]
  ELSE IF d.init THEN [disk |-> d, err |-> NoErr]
  ELSE IF o.res = "initErr" THEN [disk |-> d, err |-> ErrInitRepo]
  ELSE [disk |-> [init |-> TRUE, needMigration |-> FALSE,
                  cfg |-> [Announce |-> <<>>, RoutingType |-> "dhtserver",
                           PeerID |-> o.id, Other |-> "arkenDefaults"]],
        err |-> NoErr]

\* ---------------------------------------------------------------- nodes

\* core.NewNode's results; open is what fsrepo.Open returns for a repository
\* that exists and needs no migration.
CreateNodeOutcomes ==
  [open : {"ok", "err"}, migrate : {"ok", "err"},
   newNode : {"ok", "err"}, api : {"ok", "err"}]

\* The NodeHandle core.NewNode builds under context c from the repository
\* handle repoH ("disk": the repository at the path, "nil": no repository
\* was passed and the library falls back to an in-memory one).
NewHandle(c, d, repoH) ==
  [state |-> "live", ctx |-> c, repo |-> repoH,
   announce |-> IF repoH = "disk" THEN d.cfg.Announce ELSE <<>>,
   peerID |-> IF repoH = "disk" THEN d.cfg.PeerID ELSE EphemeralID]

\* createNode(ctx, repoPath): ns is the list of every node built so far, n
\* the global node (0: nil).  The global node is assigned by core.NewNode's
\* return, also when that returns an error.
createNode(c, d, ns, n, o) ==
  LET needMig == d.init /\ d.needMigration IN
  IF ~d.init
    THEN [disk |-> d, nodes |-> ns, node |-> n, api |-> 0, err |-> ErrNoRepo]
  ELSE IF ~needMig /\ o.open = "err"
    THEN [disk |-> d, nodes |-> ns, node |-> n, api |-> 0, err |-> ErrIO]
  ELSE IF needMig /\ o.migrate = "err"
    THEN [disk |-> d, nodes |-> ns, node |-> n, api |-> 0, err |-> ErrMigration]
  ELSE
    LET d2 == IF needMig THEN [d EXCEPT !.needMigration = FALSE] ELSE d
        repoH == IF needMig THEN "nil" ELSE "disk"
        ns2 == Append(ns, NewHandle(c, d2, repoH))
    IN IF o.newNode = "err"
         THEN [disk |-> d2, nodes |-> ns, node |-> 0, api |-> 0,
               err |-> ErrConstruction]
       ELSE IF o.api = "err"
         THEN [disk |-> d2, nodes |-> ns2, node |-> Len(ns2), api |-> 0,
               err |-> ErrCoreAPI]
       ELSE [disk |-> d2, nodes |-> ns2, node |-> Len(ns2), api |-> Len(ns2),
             err |-> NoErr]

\* Every node of ns stopped: the process has exited.
AllStopped(ns) ==
  [i \in DOMAIN ns |-> [ns[i] EXCEPT !.state = "stopped"]]

\* No peering service.
NoPS ==
  [node |-> 0, peers |-> {}, started |-> FALSE]

\* ----------------------------------------------------------------- state

VARIABLES
  pc,         \* position of the startup flow (Init and spawnNode)
  online,     \* Init's argument
  disk,       \* the repository at aitConf.Global.IPFS.Path
  nodes,      \* every NodeHandle built in this run, in build order
  node,       \* global node: index into nodes, 0 for nil
  lapi,       \* spawnNode's result api: index into nodes, 0 for nil
  ipfs,       \* global ipfs
  ctx,        \* global ctx
  cancel,     \* the context the global cancel cancels
  lctx,       \* spawnNode's result ctx
  cancelled,  \* contexts whose cancel was called
  ps,         \* global peering service
  multi,      \* checkReachability's address list
  public,     \* checkReachability's result
  err,        \* the error log.Fatal reported, NoErr if none
  relayErr,   \* what setRelay(true, path) returned and spawnNode dropped
  probeCtx,   \* the context checkReachability passed to LocalAddrs
  hist,       \* the calls the startup flow made, in order, each with the
              \* error it returned
  peers,      \* connectToPeers' address list
  peerInfos,  \* connectToPeers' map, as the list of its entries
  wg,         \* connectToPeers' wait group counter
  dials,      \* one record per dial goroutine launched
  cpc,        \* position of connectToPeers
  cerr,       \* connectToPeers' return value
  cctx,       \* the context connectToPeers was given
  capi        \* the api connectToPeers was given

mainVars ==
  <<pc, online, disk, nodes, node, lapi, ipfs, ctx, cancel, lctx, cancelled,
    ps, multi, public, err, relayErr, probeCtx, hist>>

peerVars ==
  <<peers, peerInfos, wg, dials, cpc, cerr, cctx, capi>>

vars ==
  <<pc, online, disk, nodes, node, lapi, ipfs, ctx, cancel, lctx, cancelled,
    ps, multi, public, err, relayErr, probeCtx, hist,
    peers, peerInfos, wg, dials, cpc, cerr, cctx, capi>>

\* The address strings of Init's peers list, each the triple of its
\* transport part, the protocol name before the identity, and the identity.
InitPeers ==
  << <<"/dns4/link.arken.io/tcp/4001", "ipfs", LinkID>>,
     <<"/dns4/relay.arken.io/tcp/4001", "ipfs", RelayID>> >>

\* The process before Init(online) runs.
Init ==
  /\ pc = "Init"
  /\ online \in BOOLEAN
  /\ disk \in StartRepos
  /\ nodes = <<>>
  /\ node = 0
  /\ lapi = 0
  /\ ipfs = 0
  /\ ctx = "none"
  /\ cancel = "none"
  /\ lctx = "none"
  /\ cancelled = {}
  /\ ps = NoPS
  /\ multi = <<>>
  /\ public = FALSE
  /\ err = NoErr
  /\ relayErr = NoErr
  /\ probeCtx = "none"
  /\ hist = <<>>
  /\ peers = <<>>
  /\ peerInfos = <<>>
  /\ wg = 0
  /\ dials = <<>>
  /\ cpc = "idle"
  /\ cerr = NoErr
  /\ cctx = "none"
  /\ capi = 0

\* spawnNode returns e and Init's log.Fatal ends the process.
Fatal(e) ==
  /\ pc' = "fatal"
  /\ err' = e

\* ------------------------------------------------- the startup flow

\* Init, line 46: the first context.
InitBegin ==
  /\ pc = "Init"
  /\ pc' = "spawnNode"
  /\ ctx' = "ctxInit"
  /\ cancel' = "ctxInit"
  /\ hist' = Append(hist, <<"Init", NoErr>>)
  /\ UNCHANGED <<online, disk, nodes, node, lapi, ipfs, lctx, cancelled, ps,
                 multi, public, err, relayErr, probeCtx>>
  /\ UNCHANGED peerVars

\* spawnNode, lines 70-75: a new context, then setRelay(false, path), whose
\* error is passed over only when it is the not-initialized one.
SpawnSetRelay ==
  /\ pc = "spawnNode"
  /\ \E o \in SetRelayOutcomes :
       LET r == setRelay(FALSE, disk, o) IN
       /\ disk' = r.disk
       /\ hist' = Append(hist, <<"setRelay(false)", r.err>>)
       /\ IF r.err # NoErr /\ r.err # ErrNotInitialized
            THEN /\ Fatal(r.err)
                 /\ nodes' = AllStopped(nodes)
            ELSE /\ pc' = "setupNode"
                 /\ UNCHANGED <<err, nodes>>
  /\ lctx' = "ctxSpawn"
  /\ cancel' = "ctxSpawn"
  /\ UNCHANGED <<online, node, lapi, ipfs, ctx, cancelled, ps, multi, public,
                 relayErr, probeCtx>>
  /\ UNCHANGED peerVars

\* setupNode, lines 203-205: setupPlugins.
SetupPlugins ==
  /\ pc = "setupNode"
  /\ \E o \in {"ok", "err"} :
       IF o = "err"
         THEN /\ Fatal(ErrPlugins)
              /\ nodes' = AllStopped(nodes)
         ELSE /\ pc' = "createNode1"
              /\ UNCHANGED <<err, nodes>>
  /\ hist' = Append(hist, <<"setupPlugins", err'>>)
  /\ UNCHANGED <<online, disk, node, lapi, ipfs, ctx, cancel, lctx, cancelled,
                 ps, multi, public, relayErr, probeCtx>>
  /\ UNCHANGED peerVars

\* setupNode, lines 207-208: the first createNode; any error leads to
\* createRepo.
SetupCreateNode ==
  /\ pc = "createNode1"
  /\ \E o \in CreateNodeOutcomes :
       LET r == createNode(lctx, disk, nodes, node, o) IN
       /\ disk' = r.disk
       /\ nodes' = r.nodes
       /\ node' = r.node
       /\ lapi' = r.api
       /\ hist' = Append(hist, <<"createNode", r.err>>)
       /\ pc' = IF r.err = NoErr THEN "built" ELSE "createRepo"
  /\ UNCHANGED <<online, ipfs, ctx, cancel, lctx, cancelled, ps, multi,
                 public, err, relayErr, probeCtx>>
  /\ UNCHANGED peerVars

\* setupNode, lines 209-212: createRepo.
SetupCreateRepo ==
  /\ pc = "createRepo"
  /\ \E o \in CreateRepoOutcomes :
       LET r == createRepo(disk, o) IN
       /\ disk' = r.disk
       /\ IF r.err # NoErr
            THEN /\ Fatal(r.err)
                 /\ nodes' = AllStopped(nodes)
            ELSE /\ pc' = "createNode2"
                 /\ UNCHANGED <<err, nodes>>
  /\ hist' = Append(hist, <<"createRepo", err'>>)
  /\ UNCHANGED <<online, node, lapi, ipfs, ctx, cancel, lctx, cancelled, ps,
                 multi, public, relayErr, probeCtx>>
  /\ UNCHANGED peerVars

\* setupNode, line 213: the second createNode, whose error is returned.
SetupCreateNodeAgain ==
  /\ pc = "createNode2"
  /\ \E o \in CreateNodeOutcomes :
       LET r == createNode(lctx, disk, nodes, node, o) IN
       /\ disk' = r.disk
       /\ node' = r.node
       /\ lapi' = r.api
       /\ hist' = Append(hist, <<"createNode", r.err>>)
       /\ IF r.err # NoErr
            THEN /\ Fatal(r.err)
                 /\ nodes' = AllStopped(r.nodes)
            ELSE /\ pc' = "built"
                 /\ nodes' = r.nodes
                 /\ UNCHANGED err
  /\ UNCHANGED <<online, ipfs, ctx, cancel, lctx, cancelled, ps, multi,
                 public, relayErr, probeCtx>>
  /\ UNCHANGED peerVars

\* Mutant of OfflineReturn: the probe is run in offline mode too.
OfflineReturnProbes ==
  /\ pc = "built"
  /\ ~online
  /\ pc' = "probe"
  /\ hist' = Append(hist, <<"graceWait", NoErr>>)
  /\ UNCHANGED <<online, disk, nodes, node, lapi, ipfs, ctx, cancel, lctx,
                 cancelled, ps, multi, public, err, relayErr, probeCtx>>
  /\ UNCHANGED peerVars

\* spawnNode, lines 81 and 120: offline, the node is returned as built.
OfflineReturn ==
  /\ pc = "built"
  /\ ~online
  /\ pc' = "returned"
  /\ hist' = Append(hist, <<"return", NoErr>>)
  /\ UNCHANGED <<online, disk, nodes, node, lapi, ipfs, ctx, cancel, lctx,
                 cancelled, ps, multi, public, err, relayErr, probeCtx>>
  /\ UNCHANGED peerVars

\* spawnNode, lines 81-84: online, the grace wait before the probe.
ProbeWait ==
  /\ pc = "built"
  /\ online
  /\ pc' = "probe"
  /\ hist' = Append(hist, <<"graceWait", NoErr>>)
  /\ UNCHANGED <<online, disk, nodes, node, lapi, ipfs, ctx, cancel, lctx,
                 cancelled, ps, multi, public, err, relayErr, probeCtx>>
  /\ UNCHANGED peerVars

\* spawnNode, lines 85-88: checkReachability(api).  LocalAddrs is read under
\* the global ctx (line 153), which spawnNode's result ctx shadows and Init
\* assigns only after spawnNode has returned; its error is returned.
CheckReachability ==
  /\ pc = "probe"
  /\ \E o \in {"ok", "err"} :
       IF o = "err"
         THEN /\ Fatal(ErrLocalAddrs)
              /\ nodes' = AllStopped(nodes)
              /\ UNCHANGED <<multi, public>>
         ELSE \E m \in AddrLists :
                /\ multi' = m
                /\ public' = checkReachability(m)
                /\ pc' = "probed"
                /\ UNCHANGED <<err, nodes>>
  /\ probeCtx' = ctx
  /\ hist' = Append(hist, <<"checkReachability", err'>>)
  /\ UNCHANGED <<online, disk, node, lapi, ipfs, ctx, cancel, lctx, cancelled,
                 ps, relayErr>>
  /\ UNCHANGED peerVars

\* spawnNode, lines 116-120: reachable, the probed node is returned.
ReachableReturn ==
  /\ pc = "probed"
  /\ public
  /\ pc' = "returned"
  /\ multi' = <<>>
  /\ hist' = Append(hist, <<"return", NoErr>>)
  /\ UNCHANGED <<online, disk, nodes, node, lapi, ipfs, ctx, cancel, lctx,
                 cancelled, ps, public, err, relayErr, probeCtx>>
  /\ UNCHANGED peerVars

\* Mutant of RelayCancel: the relay branch is taken whatever the probe said.
RelayCancelAlways ==
  /\ pc = "probed"
  /\ pc' = "setRelay"
  /\ cancelled' = cancelled \cup {cancel}
  /\ multi' = <<>>
  /\ hist' = Append(hist, <<"cancel", NoErr>>)
  /\ UNCHANGED <<online, disk, nodes, node, lapi, ipfs, ctx, cancel, lctx, ps,
                 public, err, relayErr, probeCtx>>
  /\ UNCHANGED peerVars

\* spawnNode, lines 90-91: not reachable, cancel() is called and returns at
\* once; what was bound to the context is torn down by Teardown.
RelayCancel ==
  /\ pc = "probed"
  /\ ~public
  /\ pc' = "setRelay"
  /\ cancelled' = cancelled \cup {cancel}
  /\ multi' = <<>>
  /\ hist' = Append(hist, <<"cancel", NoErr>>)
  /\ UNCHANGED <<online, disk, nodes, node, lapi, ipfs, ctx, cancel, lctx, ps,
                 public, err, relayErr, probeCtx>>
  /\ UNCHANGED peerVars

\* spawnNode, line 95: setRelay(true, path); the returned error is dropped.
RelaySetRelay ==
  /\ pc = "setRelay"
  /\ \E o \in SetRelayOutcomes :
       LET r == setRelay(TRUE, disk, o) IN
       /\ disk' = r.disk
       /\ relayErr' = r.err
       /\ hist' = Append(hist, <<"setRelay(true)", r.err>>)
  /\ pc' = "settle"
  /\ UNCHANGED <<online, nodes, node, lapi, ipfs, ctx, cancel, lctx, cancelled,
                 ps, multi, public, err, probeCtx>>
  /\ UNCHANGED peerVars

\* Mutant of RelaySettle: the rebuild goes through the start of spawnNode
\* again, whose setRelay(false, path) clears the announce list.
RelaySettleClearsRelay ==
  /\ pc = "settle"
  /\ pc' = "recreate"
  /\ disk' = setRelay(FALSE, disk, [read |-> "ok", write |-> "ok"]).disk
  /\ hist' = Append(hist, <<"settleWait", NoErr>>)
  /\ UNCHANGED <<online, nodes, node, lapi, ipfs, ctx, cancel, lctx,
                 cancelled, ps, multi, public, err, relayErr, probeCtx>>
  /\ UNCHANGED peerVars

\* spawnNode, line 98: the settle wait.
RelaySettle ==
  /\ pc = "settle"
  /\ pc' = "recreate"
  /\ hist' = Append(hist, <<"settleWait", NoErr>>)
  /\ UNCHANGED <<online, disk, nodes, node, lapi, ipfs, ctx, cancel, lctx,
                 cancelled, ps, multi, public, err, relayErr, probeCtx>>
  /\ UNCHANGED peerVars

\* spawnNode, lines 101-105: a new context and createNode under it.
RelayRecreate ==
  /\ pc = "recreate"
  /\ \E o \in CreateNodeOutcomes :
       LET r == createNode("ctxRelay", disk, nodes, node, o) IN
       /\ disk' = r.disk
       /\ node' = r.node
       /\ lapi' = r.api
       /\ hist' = Append(hist, <<"recreate", r.err>>)
       /\ IF r.err # NoErr
            THEN /\ Fatal(r.err)
                 /\ nodes' = AllStopped(r.nodes)
            ELSE /\ pc' = "peering"
                 /\ nodes' = r.nodes
                 /\ UNCHANGED err
  /\ lctx' = "ctxRelay"
  /\ cancel' = "ctxRelay"
  /\ UNCHANGED <<online, ipfs, ctx, cancelled, ps, multi, public, relayErr, probeCtx>>
  /\ UNCHANGED peerVars

\* spawnNode, lines 108-120: the peering service on the new node's host, the
\* relay peer added, the service started; spawnNode returns.
RelayPeering ==
  /\ pc = "peering"
  /\ ps' = [node |-> node, peers |-> {RelayID}, started |-> TRUE]
  /\ pc' = "returned"
  /\ hist' = Append(hist, <<"peering", NoErr>>)
  /\ UNCHANGED <<online, disk, nodes, node, lapi, ipfs, ctx, cancel, lctx,
                 cancelled, multi, public, err, relayErr, probeCtx>>
  /\ UNCHANGED peerVars

\* Mutant of InitFinish: the context spawnNode returned is dropped, and
\* connectToPeers gets the context Init made at line 46.
InitFinishStaleContext ==
  /\ pc = "returned"
  /\ ctx' = lctx
  /\ ipfs' = lapi
  /\ \E o \in {"ok", "err"} :
       IF o = "err"
         THEN /\ Fatal(ErrIO)
              /\ nodes' = AllStopped(nodes)
              /\ hist' = Append(hist, <<"nodeConfig", ErrIO>>)
              /\ UNCHANGED peerVars
         ELSE /\ pc' = "done"
              /\ hist' = Append(hist, <<"go connectToPeers", NoErr>>)
              /\ peers' = InitPeers
              /\ cctx' = ctx
              /\ capi' = lapi
              /\ cpc' = "parse"
              /\ UNCHANGED <<err, nodes, peerInfos, wg, dials, cerr>>
  /\ UNCHANGED <<online, disk, node, lapi, cancel, lctx, cancelled, ps, multi,
                 public, relayErr, probeCtx>>

\* Mutant of InitFinish: connectToPeers is called, not started as a
\* goroutine, so Init goes on only when it has returned.
InitFinishBlocking ==
  /\ pc = "returned"
  /\ ctx' = lctx
  /\ ipfs' = lapi
  /\ \E o \in {"ok", "err"} :
       IF o = "err"
         THEN /\ Fatal(ErrIO)
              /\ nodes' = AllStopped(nodes)
              /\ hist' = Append(hist, <<"nodeConfig", ErrIO>>)
              /\ UNCHANGED peerVars
         ELSE /\ pc' = "connecting"
              /\ hist' = Append(hist, <<"connectToPeers", NoErr>>)
              /\ peers' = InitPeers
              /\ cctx' = lctx
              /\ capi' = lapi
              /\ cpc' = "parse"
              /\ UNCHANGED <<err, nodes, peerInfos, wg, dials, cerr>>
  /\ UNCHANGED <<online, disk, node, lapi, cancel, lctx, cancelled, ps, multi,
                 public, relayErr, probeCtx>>

\* Init, lines 48-65: the globals are set from spawnNode's results, the
\* node's config is read (an error is fatal), and connectToPeers is started
\* as a goroutine; Init returns.
InitFinish ==
  /\ pc = "returned"
  /\ ctx' = lctx
  /\ ipfs' = lapi
  /\ \E o \in {"ok", "err"} :
       IF o = "err"
         THEN /\ Fatal(ErrIO)
              /\ nodes' = AllStopped(nodes)
              /\ hist' = Append(hist, <<"nodeConfig", ErrIO>>)
              /\ UNCHANGED peerVars
         ELSE /\ pc' = "done"
              /\ hist' = Append(hist, <<"go connectToPeers", NoErr>>)
              /\ peers' = InitPeers
              /\ cctx' = lctx
              /\ capi' = lapi
              /\ cpc' = "parse"
              /\ UNCHANGED <<err, nodes, peerInfos, wg, dials, cerr>>
  /\ UNCHANGED <<online, disk, node, lapi, cancel, lctx, cancelled, ps, multi,
                 public, relayErr, probeCtx>>

\* A node whose context was cancelled stops, at a time of its own: the
\* teardown that core.NewNode binds to ctx runs in the node's goroutine.
Teardown ==
  /\ pc # "fatal"
  /\ \E i \in DOMAIN nodes :
       /\ nodes[i].state = "live"
       /\ nodes[i].ctx \in cancelled
       /\ nodes' = [nodes EXCEPT ![i].state = "stopped"]
  /\ UNCHANGED <<pc, online, disk, node, lapi, ipfs, ctx, cancel, lctx,
                 cancelled, ps, multi, public, err, relayErr, probeCtx, hist>>
  /\ UNCHANGED peerVars

\* ------------------------------------------------------- connectToPeers

\* Transport parts an address string can hold, and identities of peers.
Transports ==
  {"/dns4/link.arken.io/tcp/4001", "/dns4/relay.arken.io/tcp/4001",
   "/ip4/203.0.113.9/udp/4001/quic"}

\* The transports of the lists tried in SpecPeers.
PoolTransports ==
  {"/dns4/link.arken.io/tcp/4001", "/ip4/203.0.113.9/udp/4001/quic"}

PeerIDs == {LinkID, RelayID}

\* The address strings connectToPeers is tried on: well-formed ones (a
\* transport, then /ipfs/<identity>), one with no identity, and one that is
\* no multiaddr at all.
PeerAddrPool ==
  {<<t, "ipfs", id>> : t \in PoolTransports, id \in PeerIDs}
  \cup {<<"/dns4/link.arken.io/tcp/4001">>, <<"link.arken.io:4001">>}

\* All address lists of length 0..MaxPeers.
PeerLists ==
  UNION {[1..n -> PeerAddrPool] : n \in 0..MaxPeers}

\* ma.NewMultiaddr(addrStr) succeeds.
IsMultiaddr(a) ==
  /\ a[1] \in Transports
  /\ Len(a) = 1 \/ (Len(a) = 3 /\ a[2] \in {"ipfs", "p2p"})

\* peerstore.InfoFromP2pAddr(addr) succeeds: the address ends in an identity.
HasP2pPart(a) ==
  Len(a) = 3

\* peerstore.InfoFromP2pAddr(addr): the identity, and the transport part as
\* the one address.
InfoFromP2pAddr(a) ==
  [ID |-> a[3], Addrs |-> <<a[1]>>]

\* Mutant of mergePeer: the entry of a known identity is replaced by a new
\* one, so the addresses collected before are lost.
mergePeerOverwrite(infos, pii) ==
  IF \E i \in DOMAIN infos : infos[i].ID = pii.ID
    THEN LET i == CHOOSE i \in DOMAIN infos : infos[i].ID = pii.ID
         IN [infos EXCEPT ![i].Addrs = pii.Addrs]
    ELSE Append(infos, [ID |-> pii.ID, Addrs |-> pii.Addrs])

\* Lines 266-271: the entry of pii.ID is looked up, created when missing,
\* and pii's addresses are appended to it.
mergePeer(infos, pii) ==
  IF \E i \in DOMAIN infos : infos[i].ID = pii.ID
    THEN LET i == CHOOSE i \in DOMAIN infos : infos[i].ID = pii.ID
         IN [infos EXCEPT ![i].Addrs = infos[i].Addrs \o pii.Addrs]
    ELSE Append(infos, [ID |-> pii.ID, Addrs |-> pii.Addrs])

\* Lines 257-272 from the k-th address string on: the first malformed string
\* returns its error.
RECURSIVE groupPeers(_, _, _)
groupPeers(list, k, infos) ==
  IF k > Len(list) THEN [err |-> NoErr, infos |-> infos]
  ELSE IF ~IsMultiaddr(list[k]) THEN [err |-> ErrMultiaddr, infos |-> infos]
  ELSE IF ~HasP2pPart(list[k]) THEN [err |-> ErrInvalidAddr, infos |-> infos]
  ELSE groupPeers(list, k + 1, mergePeer(infos, InfoFromP2pAddr(list[k])))

\* The address string is accepted by lines 258-265.
ParsesAsPeer(a) ==
  IsMultiaddr(a) /\ HasP2pPart(a)

\* Mutant of ConnectParse: a malformed address string is passed over and the
\* remaining ones are dialed.
ConnectParseSkipsMalformed ==
  /\ cpc = "parse"
  /\ LET r == groupPeers(SelectSeq(peers, ParsesAsPeer), 1, <<>>) IN
     IF r.err # NoErr
       THEN /\ cpc' = "returned"
            /\ cerr' = r.err
            /\ UNCHANGED <<peerInfos, wg, dials>>
       ELSE /\ peerInfos' = r.infos
            /\ wg' = Len(r.infos)
            /\ dials' = [i \in DOMAIN r.infos |->
                           [ID |-> r.infos[i].ID, Addrs |-> <<>>,
                            ctx |-> "none", api |-> 0, state |-> "none"]]
            /\ cpc' = IF Len(r.infos) = 0 THEN "wait" ELSE "launch"
            /\ UNCHANGED cerr
  /\ UNCHANGED <<peers, cctx, capi>>
  /\ UNCHANGED mainVars

\* connectToPeers, lines 255-274: the map is built and the wait group is set
\* to its size, or the parse error is returned.
ConnectParse ==
  /\ cpc = "parse"
  /\ LET r == groupPeers(peers, 1, <<>>) IN
     IF r.err # NoErr
       THEN /\ cpc' = "returned"
            /\ cerr' = r.err
            /\ UNCHANGED <<peerInfos, wg, dials>>
       ELSE /\ peerInfos' = r.infos
            /\ wg' = Len(r.infos)
            /\ dials' = [i \in DOMAIN r.infos |->
                           [ID |-> r.infos[i].ID, Addrs |-> <<>>,
                            ctx |-> "none", api |-> 0, state |-> "none"]]
            /\ cpc' = IF Len(r.infos) = 0 THEN "wait" ELSE "launch"
            /\ UNCHANGED cerr
  /\ UNCHANGED <<peers, cctx, capi>>
  /\ UNCHANGED mainVars

\* connectToPeers, lines 275-283: one goroutine is started for one entry of
\* the map, in the order the map's iteration yields them.
ConnectLaunch ==
  /\ cpc = "launch"
  /\ \E i \in DOMAIN dials :
       /\ dials[i].state = "none"
       /\ dials' = [dials EXCEPT ![i].state = "spawned"]
       /\ cpc' = IF \A j \in DOMAIN dials : j # i => dials[j].state # "none"
                 THEN "wait" ELSE "launch"
  /\ UNCHANGED <<peers, peerInfos, wg, cerr, cctx, capi>>
  /\ UNCHANGED mainVars

\* A goroutine, line 278: ipfs.Swarm().Connect(ctx, *peerInfo) is called.
DialStart ==
  /\ \E i \in DOMAIN dials :
       /\ dials[i].state = "spawned"
       /\ dials' = [dials EXCEPT ![i].state = "dialing",
                                 ![i].Addrs = peerInfos[i].Addrs,
                                 ![i].ctx = cctx,
                                 ![i].api = capi]
  /\ UNCHANGED <<peers, peerInfos, wg, cpc, cerr, cctx, capi>>
  /\ UNCHANGED mainVars

\* Mutant of DialFinish: a failed dial ends connectToPeers with the error.
DialFinishAborting ==
  /\ \E i \in DOMAIN dials :
       /\ dials[i].state = "dialing"
       /\ \E o \in {"ok", "failed"} :
            /\ o = "ok" => dials[i].ctx \notin cancelled
            /\ dials' = [dials EXCEPT ![i].state = o]
            /\ wg' = wg - 1
            /\ IF o = "failed"
                 THEN cpc' = "returned" /\ cerr' = "dial failed"
                 ELSE UNCHANGED <<cpc, cerr>>
  /\ UNCHANGED <<peers, peerInfos, cctx, capi>>
  /\ UNCHANGED mainVars

\* A goroutine, lines 277-281: Connect returns; an error is logged; the
\* deferred wg.Done() runs.  A dial under a cancelled context fails.
DialFinish ==
  /\ \E i \in DOMAIN dials :
       /\ dials[i].state = "dialing"
       /\ \E o \in {"ok", "failed"} :
            /\ o = "ok" => dials[i].ctx \notin cancelled
            /\ dials' = [dials EXCEPT ![i].state = o]
            /\ wg' = wg - 1
  /\ UNCHANGED <<peers, peerInfos, cpc, cerr, cctx, capi>>
  /\ UNCHANGED mainVars

\* Mutant of ConnectReturn: connectToPeers returns once the goroutines are
\* started, without waiting for them.
ConnectReturnWithoutWait ==
  /\ cpc = "wait"
  /\ cpc' = "returned"
  /\ UNCHANGED <<peers, peerInfos, wg, dials, cerr, cctx, capi>>
  /\ UNCHANGED mainVars

\* connectToPeers, lines 284-285: wg.Wait() returns at zero; nil is returned.
ConnectReturn ==
  /\ cpc = "wait"
  /\ wg = 0
  /\ cpc' = "returned"
  /\ UNCHANGED <<peers, peerInfos, wg, dials, cerr, cctx, capi>>
  /\ UNCHANGED mainVars

\* -------------------------------------------------------- specifications

Next ==
  \/ InitBegin
  \/ SpawnSetRelay
  \/ SetupPlugins
  \/ SetupCreateNode
  \/ SetupCreateRepo
  \/ SetupCreateNodeAgain
  \/ OfflineReturn
  \/ ProbeWait
  \/ CheckReachability
  \/ ReachableReturn
  \/ RelayCancel
  \/ RelaySetRelay
  \/ RelaySettle
  \/ RelayRecreate
  \/ RelayPeering
  \/ InitFinish
  \/ Teardown
  \/ ConnectParse
  \/ ConnectLaunch
  \/ DialStart
  \/ DialFinish
  \/ ConnectReturn

\* One run of Init(online).
Spec == Init /\ [][Next]_vars

\* The steps of the startup flow, which runs on until Init returns or
\* log.Fatal ends the process.
StartupNext ==
  \/ InitBegin
  \/ SpawnSetRelay
  \/ SetupPlugins
  \/ SetupCreateNode
  \/ SetupCreateRepo
  \/ SetupCreateNodeAgain
  \/ OfflineReturn
  \/ ProbeWait
  \/ CheckReachability
  \/ ReachableReturn
  \/ RelayCancel
  \/ RelaySetRelay
  \/ RelaySettle
  \/ RelayRecreate
  \/ RelayPeering
  \/ InitFinish

\* One run of Init(online) in which the startup flow is not suspended for
\* ever: its calls return and its sleeps end.
SpecFair == Spec /\ WF_vars(StartupNext)

\* connectToPeers called on a running node with an address list of its own.
InitConnect ==
  /\ pc = "done"
  /\ online = FALSE
  /\ disk = [init |-> TRUE, needMigration |-> FALSE,
             cfg |-> [Announce |-> <<>>, RoutingType |-> "dhtserver",
                      PeerID |-> "QmSelfA", Other |-> "arkenDefaults"]]
  /\ nodes = <<NewHandle("ctxSpawn", disk, "disk")>>
  /\ node = 1
  /\ lapi = 1
  /\ ipfs = 1
  /\ ctx = "ctxSpawn"
  /\ cancel = "ctxSpawn"
  /\ lctx = "ctxSpawn"
  /\ cancelled = {}
  /\ ps = NoPS
  /\ multi = <<>>
  /\ public = FALSE
  /\ err = NoErr
  /\ relayErr = NoErr
  /\ probeCtx = "none"
  /\ hist = <<>>
  /\ peers \in PeerLists
  /\ peerInfos = <<>>
  /\ wg = 0
  /\ dials = <<>>
  /\ cpc = "parse"
  /\ cerr = NoErr
  /\ cctx = "ctxSpawn"
  /\ capi = 1

NextConnect ==
  \/ ConnectParse
  \/ ConnectLaunch
  \/ DialStart
  \/ DialFinish
  \/ ConnectReturn

SpecPeers == InitConnect /\ [][NextConnect]_vars

\* ---------------------------------------------------------------- claims

\* The startup flow made the call named name.
Called(name) ==
  \E k \in DOMAIN hist : hist[k][1] = name

\* The startup flow made the call named name and it returned e.
Returned(name, e) ==
  \E k \in DOMAIN hist : hist[k] = <<name, e>>

\* The nodes that have not stopped.
LiveNodes ==
  {i \in DOMAIN nodes : nodes[i].state = "live"}

\* The probe ran and classified the node NatBound.
NatBound ==
  online /\ Returned("checkReachability", NoErr) /\ ~public

\* C1: once Init has returned in online mode after a NatBound probe, the
\* announce-address list on disk is exactly the one relay circuit address
\* that embeds the repository's own identity, whatever setRelay(true, path)
\* returned.
C1_RelayAnnounceAfterNatBound ==
  (pc = "done" /\ NatBound) =>
    disk.cfg.Announce = <<Concat(RelayCircuitPrefix, disk.cfg.PeerID)>>

\* C2: a failed step of the relay reconfiguration is fatal: after
\* setRelay(true, path) returned an error no node is recreated, no peering
\* service is started and Init does not return; after a failed rebuild
\* nothing follows either.
C2_RelayFailureIsFatal ==
  /\ relayErr # NoErr =>
       /\ ~Returned("recreate", NoErr)
       /\ ~ps.started
       /\ pc \notin {"peering", "returned", "done"}
  /\ (Called("recreate") /\ ~Returned("recreate", NoErr)) =>
       /\ pc = "fatal"
       /\ ~ps.started

\* C3: setRelay writes the config file only while no live node is bound to
\* the repository: in the state its write leaves, every node built so far
\* has stopped.
C3_ConfigWrittenOnlyWithoutLiveNode ==
  /\ (pc = "settle" /\ Returned("setRelay(true)", NoErr)) => LiveNodes = {}
  /\ (pc = "setupNode" /\ Returned("setRelay(false)", NoErr)) => LiveNodes = {}

\* C4: when node recreation builds the new handle, the previous handle has
\* stopped: from then on at most one node is live.
C4_OneLiveNodeAcrossRecreation ==
  Returned("recreate", NoErr) => Cardinality(LiveNodes) <= 1

\* The first createNode of setupNode is the k-th call of the flow.
IsFirstBuild(k) ==
  /\ k \in DOMAIN hist
  /\ hist[k][1] = "createNode"
  /\ \A j \in 1..(k - 1) : hist[j][1] # "createNode"

\* C8: when the first build fails with anything but a missing repository
\* (a migration error, a construction error), startup ends with that error:
\* no createRepo and no second build follow.
C8_BuildErrorIsFatal ==
  \A k \in DOMAIN hist :
    (IsFirstBuild(k) /\ hist[k][2] \notin {NoErr, ErrNoRepo}) =>
      /\ \A j \in DOMAIN hist :
           j > k => hist[j][1] \notin {"createRepo", "createNode"}
      /\ pc \notin {"createNode2", "built", "probe", "probed", "returned", "done"}

\* Every address string of the list parses and carries an identity.
WellFormed(list) ==
  \A k \in DOMAIN list : IsMultiaddr(list[k]) /\ HasP2pPart(list[k])

\* The identities named in a well-formed list.
IdsOf(list) ==
  {list[k][3] : k \in DOMAIN list}

\* The addresses a well-formed list supplies for the identity id.
AddrsOf(list, id) ==
  {list[k][1] : k \in {j \in DOMAIN list : list[j][3] = id}}

\* The elements of a sequence.
Range(q) ==
  {q[k] : k \in DOMAIN q}

\* The dial attempts made so far for the identity id.
Attempts(id) ==
  {i \in DOMAIN dials :
     dials[i].ID = id /\ dials[i].state \in {"dialing", "ok", "failed"}}

\* C5: for a well-formed list, no identity is dialed twice, every dial is
\* for an identity of the list and carries exactly the addresses the list
\* supplies for it, and when connectToPeers has returned every identity of
\* the list has been dialed exactly once.
C5_OneDialPerIdentity ==
  WellFormed(peers) =>
    /\ \A id \in PeerIDs : Cardinality(Attempts(id)) <= 1
    /\ \A i \in DOMAIN dials :
         dials[i].state \in {"dialing", "ok", "failed"} =>
           /\ dials[i].ID \in IdsOf(peers)
           /\ Range(dials[i].Addrs) = AddrsOf(peers, dials[i].ID)
    /\ cpc = "returned" =>
         \A id \in PeerIDs :
           Cardinality(Attempts(id)) = (IF id \in IdsOf(peers) THEN 1 ELSE 0)

\* C5 witness: connectToPeers has returned after one dial that carried two
\* different addresses of one identity, the list naming it twice.
C5_Witness ==
  /\ cpc = "returned"
  /\ WellFormed(peers)
  /\ Len(peers) = 3
  /\ Cardinality(IdsOf(peers)) = 2
  /\ \E i \in DOMAIN dials :
       /\ dials[i].state \in {"ok", "failed"}
       /\ Cardinality(Range(dials[i].Addrs)) = 2

\* The five reserved prefixes, as the specification lists them.
ReservedPrefixes ==
  { <<"/", "i", "p", "4", "/", "1", "0", ".">>,
    <<"/", "i", "p", "4", "/", "1", "9", "2", ".">>,
    <<"/", "i", "p", "4", "/", "1", "2", "7", ".">>,
    <<"/", "i", "p", "4", "/", "1", "7", "2", ".">>,
    <<"/", "i", "p", "6", "/">> }

\* An address is private iff it starts with a reserved prefix.
IsPrivate(addr) ==
  \E q \in ReservedPrefixes :
    Len(addr) >= Len(q) /\ \A k \in 1..Len(q) : addr[k] = q[k]

\* C6: the probe's result is Reachable iff some observed address is not
\* private; with no observed address it is NatBound.
C6_ReachableIffSomePublicAddress ==
  pc = "probed" =>
    /\ public = (\E k \in DOMAIN multi : ~IsPrivate(multi[k]))
    /\ multi = <<>> => ~public

\* C6 witness: the probe saw a private address first and a public one after
\* it, and answered Reachable.
C6_Witness ==
  /\ pc = "probed"
  /\ multi = <<AddrTen, AddrHundred>>
  /\ public

\* C7: for a well-formed list connectToPeers never returns an error, and
\* whatever dials failed, when it returns every identity of the list has
\* had its one dial and every dial has finished.
C7_FailedDialDoesNotAbort ==
  WellFormed(peers) =>
    /\ cerr = NoErr
    /\ cpc = "returned" =>
         /\ \A id \in IdsOf(peers) : Cardinality(Attempts(id)) = 1
         /\ \A i \in DOMAIN dials : dials[i].state \in {"ok", "failed"}
    /\ \A i \in DOMAIN dials :
         (dials[i].state = "none" /\ \E j \in DOMAIN dials : dials[j].state = "failed")
           => cpc = "launch"

\* C7 witness: connectToPeers has returned nil after one dial failed and
\* another succeeded.
C7_Witness ==
  /\ cpc = "returned"
  /\ cerr = NoErr
  /\ \E i, j \in DOMAIN dials :
       dials[i].state = "failed" /\ dials[j].state = "ok"

\* What holds of a state once the probe has answered Reachable: nothing was
\* cancelled, there is no peering service, no step of the relay branch ran,
\* the current node is the one built last, it is live, and the config on
\* disk is the one it was built from.
C9_ReachableState ==
  /\ cancelled = {}
  /\ ps = NoPS
  /\ ~Called("cancel")
  /\ ~Called("setRelay(true)")
  /\ ~Called("recreate")
  /\ ~Called("peering")
  /\ node = lapi
  /\ node = Len(nodes)
  /\ pc # "fatal" => nodes[node].state = "live"
  /\ nodes[node].repo = "disk" => nodes[node].announce = disk.cfg.Announce

\* What a step taken after a Reachable answer leaves as it is: the contexts,
\* the repository, the list of nodes built, the current node and the
\* peering service; the node Init hands on is the probed one.
C9_ReachableStep ==
  /\ cancelled' = cancelled
  /\ disk' = disk
  /\ Len(nodes') = Len(nodes)
  /\ node' = node
  /\ lapi' = lapi
  /\ ps' = ps
  /\ pc' = "done" => (ipfs' = lapi /\ capi' = lapi)

\* C9: in online mode, once the probe has answered Reachable there is no
\* relay reconfiguration: no cancel, no config rewrite, no second node, no
\* peering service, and the node returned is the node that was probed.
C9_ReachableNoReconfiguration ==
  /\ [](public => C9_ReachableState)
  /\ [][public => C9_ReachableStep]_vars

\* C9 witness: Init has returned in online mode after a Reachable answer,
\* the first node still live and current.
C9_Witness ==
  /\ pc = "done"
  /\ online
  /\ public
  /\ Returned("checkReachability", NoErr)
  /\ LiveNodes = {node}
  /\ ipfs = node

\* The run started on a path that held no repository.
FreshPath ==
  Returned("setRelay(false)", ErrNotInitialized)

\* createRepo succeeded and a later build succeeded.
CreatedThenBuilt ==
  \E j, k \in DOMAIN hist :
    /\ j < k
    /\ hist[j] = <<"createRepo", NoErr>>
    /\ hist[k] = <<"createNode", NoErr>>

\* What holds of every state of an offline run on a fresh path.
C10_OfflineFreshState ==
  /\ ~Called("graceWait")
  /\ ~Called("checkReachability")
  /\ ~Called("cancel")
  /\ ~Called("setRelay(true)")
  /\ ~Called("recreate")
  /\ cancelled = {}
  /\ ps = NoPS
  /\ disk.cfg.Announce = <<>>
  /\ pc \in {"built", "returned", "done"} =>
       /\ CreatedThenBuilt
       /\ node = Len(nodes)
       /\ nodes[node].state = "live"
  /\ pc = "done" =>
       /\ cpc # "idle"
       /\ peers = InitPeers
       /\ capi = node
       /\ cctx \notin cancelled
  /\ cpc # "idle" => pc = "done"

\* C10: an offline run on a fresh path creates the repository and then
\* builds the node, never probes, never reconfigures for the relay, and,
\* unless a fatal error ends it, launches connectToPeers on the fixed list.
C10_OfflineFreshPath ==
  /\ []((~online /\ FreshPath) => C10_OfflineFreshState)
  /\ (~online /\ FreshPath) ~> (pc = "fatal" \/ (pc = "done" /\ cpc # "idle"))

\* C10 witness: an offline run on a fresh path has returned from Init and
\* its connectToPeers has dialed and returned.
C10_Witness ==
  /\ ~online
  /\ FreshPath
  /\ pc = "done"
  /\ cpc = "returned"
  /\ CreatedThenBuilt

\* ---------------------------------------------------------------------
\* setRelay on its own: any sequence of at most MaxCalls calls of
\* setRelay(relay, path), with either flag, on any starting repository.

MaxCalls == 3

InitSetRelay ==
  /\ pc = "calls"
  /\ online = FALSE
  /\ disk \in StartRepos
  /\ nodes = <<>>
  /\ node = 0
  /\ lapi = 0
  /\ ipfs = 0
  /\ ctx = "none"
  /\ cancel = "none"
  /\ lctx = "none"
  /\ cancelled = {}
  /\ ps = NoPS
  /\ multi = <<>>
  /\ public = FALSE
  /\ err = NoErr
  /\ relayErr = NoErr
  /\ probeCtx = "none"
  /\ hist = <<>>
  /\ peers = <<>>
  /\ peerInfos = <<>>
  /\ wg = 0
  /\ dials = <<>>
  /\ cpc = "idle"
  /\ cerr = NoErr
  /\ cctx = "none"
  /\ capi = 0

CallSetRelay ==
  /\ pc = "calls"
  /\ Len(hist) < MaxCalls
  /\ \E relay \in BOOLEAN, o \in SetRelayOutcomes :
       LET r == setRelay(relay, disk, o) IN
         /\ disk' = r.disk
         /\ relayErr' = r.err
         /\ hist' = Append(hist, <<IF relay THEN "setRelay(true)"
                                             ELSE "setRelay(false)", r.err>>)
  /\ UNCHANGED <<pc, online, nodes, node, lapi, ipfs, ctx, cancel, lctx,
                 cancelled, ps, multi, public, err, probeCtx>>
  /\ UNCHANGED peerVars

NextSetRelay == CallSetRelay

SpecSetRelay == InitSetRelay /\ [][NextSetRelay]_vars

\* The step is a call of setRelay by the startup flow.
SetRelayStep ==
  /\ Len(hist') = Len(hist) + 1
  /\ hist'[Len(hist')][1] \in {"setRelay(false)", "setRelay(true)"}

\* C11: a call of setRelay leaves the identity, the other fields of the
\* config and the repository's format as they were, whatever it returns, and
\* leaves the whole repository as it was when it returns an error.
C11_SetRelayFrame ==
  [][SetRelayStep =>
       /\ disk'.init = disk.init
       /\ disk'.needMigration = disk.needMigration
       /\ disk'.cfg.PeerID = disk.cfg.PeerID
       /\ disk'.cfg.Other = disk.cfg.Other
       /\ hist'[Len(hist')][2] # NoErr => disk' = disk]_vars

\* C11 witness: setRelay(true, path) has rewritten a config whose other
\* fields differ from the defaults, after setRelay(false, path) rewrote it.
C11_Witness ==
  /\ pc = "settle"
  /\ Returned("setRelay(false)", NoErr)
  /\ Returned("setRelay(true)", NoErr)
  /\ disk.cfg.Other = "userEdited"
  /\ disk.cfg.Announce = <<Concat(RelayCircuitPrefix, disk.cfg.PeerID)>>

\* The last call made returned from setRelay(true, path) without error.
LastWasRelayOn ==
  /\ Len(hist) > 0
  /\ hist[Len(hist)] = <<"setRelay(true)", NoErr>>

\* C12: a successful setRelay(true, path) that follows a successful
\* setRelay(true, path) leaves the repository as the first one left it, and
\* the announce list it leaves is the one relay circuit address of the
\* repository's identity.
C12_SetRelayTrueIdempotent ==
  [][(LastWasRelayOn /\ LastWasRelayOn' /\ Len(hist') = Len(hist) + 1) =>
       /\ disk' = disk
       /\ disk'.cfg.Announce =
            <<Concat(RelayCircuitPrefix, disk'.cfg.PeerID)>>]_vars

\* C12 witness: two successful calls of setRelay(true, path) in succession,
\* after a call that failed to read or write the config.
C12_Witness ==
  /\ pc = "calls"
  /\ Len(hist) = 3
  /\ hist[1] = <<"setRelay(false)", ErrIO>>
  /\ hist[2] = <<"setRelay(true)", NoErr>>
  /\ hist[3] = <<"setRelay(true)", NoErr>>
  /\ Len(disk.cfg.Announce) = 1

\* spawnNode returned to Init without error.
SpawnNodeSucceeded == Called("return") \/ Called("peering")

\* C13 as stated: Init returns in every run in which spawnNode succeeded.
C13_InitReturnsWheneverSpawned ==
  SpawnNodeSucceeded => pc # "fatal"

\* C13: once spawnNode has succeeded Init goes on without waiting for any
\* dial: it returns, with connectToPeers started and no dial begun, unless
\* reading the node's config fails, which ends the process; this needs no
\* step of connectToPeers or of a dial.
C13_InitDoesNotWaitForDials ==
  /\ [][(pc = "returned" /\ pc' = "done") =>
          (cpc' = "parse" /\ dials' = <<>>)]_vars
  /\ (pc = "returned") ~> (pc = "done" \/ Returned("nodeConfig", ErrIO))

\* C13 witness: Init has returned while a dial to a bootstrap peer is in
\* flight and another has not started.
C13_Witness ==
  /\ pc = "done"
  /\ \E i \in DOMAIN dials : dials[i].state = "dialing"
  /\ \E i \in DOMAIN dials : dials[i].state = "spawned"

\* The positions of the malformed address strings of a list.
Malformed(list) ==
  {k \in DOMAIN list : ~ParsesAsPeer(list[k])}

\* The error of the first malformed address string of a list that has one.
FirstParseError(list) ==
  LET k == CHOOSE j \in Malformed(list) : \A i \in Malformed(list) : j <= i
  IN IF ~IsMultiaddr(list[k]) THEN ErrMultiaddr ELSE ErrInvalidAddr

\* C14: when the list holds a malformed address string, connectToPeers
\* starts no goroutine and makes no dial, for no peer of the list, and what
\* it returns is the error of the first malformed string.
C14_MalformedAddressStopsBatch ==
  Malformed(peers) # {} =>
    /\ cpc \in {"parse", "returned"}
    /\ dials = <<>>
    /\ wg = 0
    /\ cpc = "returned" => cerr = FirstParseError(peers)

\* C14 witness: connectToPeers has returned the error of an address without
\* identity that came after a well-formed address.
C14_Witness ==
  /\ cpc = "returned"
  /\ cerr = ErrInvalidAddr
  /\ Len(peers) = 3
  /\ ParsesAsPeer(peers[1])
  /\ ~ParsesAsPeer(peers[2])
  /\ ParsesAsPeer(peers[3])
  /\ dials = <<>>

\* C15: every node createNode has built was built from the handle of the
\* repository opened at the path, never from a nil handle, also after a
\* migration.
C15_NodeBuiltFromOpenedRepo ==
  \A i \in DOMAIN nodes : nodes[i].repo = "disk"

\* The dials that have been issued.
Issued ==
  {i \in DOMAIN dials : dials[i].state \in {"dialing", "ok", "failed"}}

\* C16: connectToPeers is started only when the startup flow has returned,
\* after the probe and, for a NatBound node, after the rebuild and the
\* peering registration; every dial issued carries the node and the context
\* that are the globals ipfs, node and ctx since then, which is the node built
\* last under its own context, and that context is not cancelled.
C16_DialsUseCurrentNodeAndContext ==
  /\ cpc # "idle" =>
       /\ pc = "done"
       /\ online => Called("checkReachability")
       /\ NatBound => (Returned("recreate", NoErr) /\ Called("peering"))
       /\ cctx = ctx /\ capi = ipfs
  /\ \A i \in Issued :
       /\ dials[i].ctx = ctx
       /\ dials[i].api = ipfs
       /\ dials[i].api = node
       /\ dials[i].api = Len(nodes)
       /\ nodes[dials[i].api].ctx = dials[i].ctx
       /\ dials[i].ctx \notin cancelled

\* C16 witness: after a relay reconfiguration a dial has succeeded on the
\* rebuilt node under the context made at line 101, the first node's context
\* being cancelled.
C16_Witness ==
  /\ NatBound
  /\ "ctxSpawn" \in cancelled
  /\ \E i \in DOMAIN dials :
       /\ dials[i].state = "ok"
       /\ dials[i].ctx = "ctxRelay"
       /\ dials[i].api = 2

\* C17: the probe reads the addresses of the node under the context that
\* node was built with.
C17_ProbeUnderNodeContext ==
  pc = "probed" => probeCtx = nodes[lapi].ctx

\* The dials whose goroutine has not finished.
Unfinished ==
  {i \in DOMAIN dials : dials[i].state \notin {"ok", "failed"}}

\* C18: connectToPeers has not returned while a goroutine it started, or was
\* about to start, has not finished its dial; the wait group counts the
\* unfinished ones; and when all have finished the return is not held up.
C18_ReturnsOnlyAfterAllDials ==
  /\ cpc = "returned" => Unfinished = {}
  /\ cpc \in {"launch", "wait"} => wg = Cardinality(Unfinished)
  /\ (cpc = "wait" /\ Unfinished = {}) => ENABLED ConnectReturn

\* C18 witness: connectToPeers has returned nil after two dials, one that
\* succeeded and one that failed.
C18_Witness ==
  /\ cpc = "returned"
  /\ cerr = NoErr
  /\ Len(dials) = 2
  /\ \E i \in DOMAIN dials : dials[i].state = "ok"
  /\ \E i \in DOMAIN dials : dials[i].state = "failed"

\* How many times the startup flow made the call named name.
Count(name) ==
  Cardinality({k \in DOMAIN hist : hist[k][1] = name})

\* The relay circuit address of the repository's identity is the announce
\* list on disk.
RelayOnDisk ==
  disk.init /\ disk.cfg.Announce = <<Concat(RelayCircuitPrefix, disk.cfg.PeerID)>>

\* The node the global node names announces a relay circuit address.
RelayMode ==
  node # 0 /\ nodes[node].announce # <<>>

\* C19: in one run the probe, the cancel, setRelay(true, path) and the
\* rebuild each happen at most once, setRelay(false, path) is not called
\* after setRelay(true, path), the relay address once written stays the
\* announce list on disk, and the current node never goes from announcing a
\* relay address back to announcing none.
C19_DirectToRelayedOnce ==
  /\ [](/\ Count("checkReachability") <= 1
        /\ Count("cancel") <= 1
        /\ Count("setRelay(true)") <= 1
        /\ Count("recreate") <= 1
        /\ Count("setRelay(false)") <= 1
        /\ \A j, k \in DOMAIN hist :
             (hist[j][1] = "setRelay(true)" /\ hist[k][1] = "setRelay(false)")
               => k < j
        /\ Returned("setRelay(true)", NoErr) => RelayOnDisk)
  /\ [][Returned("setRelay(true)", NoErr) => disk' = disk]_vars
  /\ [][RelayMode => RelayMode']_vars

\* C19 witness: the run went from direct to relayed and Init returned: the
\* first node was built without announce address, the relay address was
\* written, and the rebuilt node announces it.
C19_Witness ==
  /\ pc = "done"
  /\ Returned("setRelay(true)", NoErr)
  /\ RelayOnDisk
  /\ RelayMode
  /\ nodes[1].announce = <<>>

\* C20: right after the setRelay(false, path) that opens spawnNode an
\* existing repository's announce list is empty; every node built before
\* setRelay(true, path) is called, the first node of the run among them,
\* announces no address; and once that first write or createRepo has
\* succeeded the announce list on disk is empty or is the one relay circuit
\* address of the repository's identity.
C20_StartsDirectThenEmptyOrRelay ==
  /\ (pc = "setupNode" /\ disk.init) => disk.cfg.Announce = <<>>
  /\ nodes # <<>> => nodes[1].announce = <<>>
  /\ ~Called("setRelay(true)") =>
       \A i \in DOMAIN nodes : nodes[i].announce = <<>>
  /\ (Returned("setRelay(false)", NoErr) \/ Returned("createRepo", NoErr)) =>
       /\ disk.init
       /\ disk.cfg.Announce = <<>> \/ RelayOnDisk

\* C20 witness: the first node of a run on an existing repository, one that
\* createRepo did not write in this run, is built and announces no address.
C20_Witness ==
  /\ pc = "built"
  /\ Returned("setRelay(false)", NoErr)
  /\ ~Called("createRepo")
  /\ disk.cfg.Other = "userEdited"
  /\ Len(nodes) = 1
  /\ nodes[1].repo = "disk"
  /\ nodes[1].announce = <<>>

====
